---- MODULE Spec2Model ----
(***************************************************************************)
(* DBSCAN-Analysis: the parameter search of utils.py, the four analysis    *)
(* pipelines and the HTTP layer of app.py.                                 *)
(*                                                                         *)
(* Numbers.  A feature matrix has one column; a standardized matrix is a   *)
(* record [z, V, nan] standing for the reals z[i] / sqrt(V), so that every *)
(* distance is |z[i] - z[j]| / sqrt(V) and every comparison the code makes *)
(* is an exact comparison of integers.  eps is kept as its square, a       *)
(* rational [num, den].  Silhouette scores are exact rationals <<p, q>>.   *)
(***************************************************************************)
EXTENDS Integers, Sequences, FiniteSets, TLC

\* ------------------------------------------------------------------ bounds
MaxRows == 6
MaxCoord == 4
MaxHi == 6
MaxTableRows == 11
MaxVal == 2

\* ------------------------------------------------------- program constants
DEFAULT_MIN_SAMPLES == 3
DefaultLo == 2
DefaultHi == 10
NoElbow == -1
Noise == -1
NoneMinSamples == 0

\* DEFAULT_EPS = 0.3, as the square 9/100
DEFAULT_EPS == [num |-> 9, den |-> 100]

\* ------------------------------------------------------------- arithmetic
Abs(a) == IF a < 0 THEN -a ELSE a

RECURSIVE Gcd(_, _)
Gcd(a, b) == IF b = 0 THEN a ELSE Gcd(b, a % b)

\* ratios <<p, q>> of integers with q > 0, in lowest terms
RNorm(p, q) ==
    LET g == Gcd(Abs(p), q) IN IF p = 0 THEN <<0, 1>> ELSE <<p \div g, q \div g>>

RLess(a, b) == a[1] * b[2] < b[1] * a[2]

\* Natural numbers of any size, as their digits to the base Base, the least
\* significant first and the most significant not 0: the sums of silhouette
\* values outgrow the machine integers.
Base == 10000

RECURSIVE BigOfNat(_)
BigOfNat(n) == IF n = 0 THEN <<>> ELSE <<n % Base>> \o BigOfNat(n \div Base)

RECURSIVE BigAddC(_, _, _)
BigAddC(a, b, carry) ==
    IF a = <<>> /\ b = <<>> THEN BigOfNat(carry)
    ELSE LET x == IF a = <<>> THEN 0 ELSE Head(a)
             y == IF b = <<>> THEN 0 ELSE Head(b)
             t == x + y + carry
         IN  <<t % Base>> \o BigAddC(IF a = <<>> THEN a ELSE Tail(a),
                                     IF b = <<>> THEN b ELSE Tail(b), t \div Base)

BigAdd(a, b) == BigAddC(a, b, 0)

\* a * k for a machine integer 0 <= k < 200000
RECURSIVE BigScaleC(_, _, _)
BigScaleC(a, k, carry) ==
    IF a = <<>> THEN BigOfNat(carry)
    ELSE LET t == Head(a) * k + carry
         IN  <<t % Base>> \o BigScaleC(Tail(a), k, t \div Base)

BigScale(a, k) == IF k = 0 THEN <<>> ELSE BigScaleC(a, k, 0)

RECURSIVE BigMul(_, _)
BigMul(a, b) ==
    IF a = <<>> \/ b = <<>> THEN <<>>
    ELSE LET rest == BigMul(a, Tail(b))
         IN  BigAdd(BigScale(a, Head(b)), IF rest = <<>> THEN rest ELSE <<0>> \o rest)

RECURSIVE BigLessFrom(_, _, _)
BigLessFrom(a, b, k) ==
    IF k = 0 THEN FALSE
    ELSE IF a[k] # b[k] THEN a[k] < b[k]
    ELSE BigLessFrom(a, b, k - 1)

BigLess(a, b) ==
    IF Len(a) # Len(b) THEN Len(a) < Len(b) ELSE BigLessFrom(a, b, Len(a))

\* ratios <<P, Q>> of big naturals, Q > 0
BigRatioAdd(R, r) ==
    <<BigAdd(BigScale(R[1], r[2]), BigScale(R[2], r[1])), BigScale(R[2], r[2])>>

BigRatioLess(R, S) == BigLess(BigMul(R[1], S[2]), BigMul(S[1], R[2]))

\* F(e), with e evaluated once
Once(F(_), e) == CHOOSE v \in {F(x) : x \in {e}} : TRUE

\* the sequence <<F(1), ..., F(n)>>
RECURSIVE Tabulate(_, _)
Tabulate(F(_), n) == IF n = 0 THEN <<>> ELSE Append(Tabulate(F, n - 1), F(n))

RECURSIVE SumSeq(_, _)
SumSeq(s, k) == IF k = 0 THEN 0 ELSE s[k] + SumSeq(s, k - 1)

RECURSIVE BigRatioSum(_, _)
BigRatioSum(s, k) ==
    IF k = 0 THEN <<<<>>, <<1>>>> ELSE BigRatioAdd(BigRatioSum(s, k - 1), s[k])

Range(s) == {s[k] : k \in DOMAIN s}

\* np.sort of a sequence of integers
NpSort(s) == SortSeq(s, LAMBDA a, b : a < b)

\* ------------------------------------------------- sklearn NearestNeighbors
Dist(z, i, j) == Abs(z[i] - z[j])

\* distances[i, m-1] of kneighbors: the m-th smallest distance from row i
\* to the rows of the matrix, row i itself (distance 0) included
KthDistance(z, i, m) ==
    NpSort(Tabulate(LAMBDA j : Dist(z, i, j), Len(z)))[m]

\* line 55: np.sort(distances[:, min_samples-1])
KDistances(z, m) == NpSort(Tabulate(LAMBDA i : KthDistance(z, i, m), Len(z)))

\* ------------------------------------------------------- kneed KneeLocator
\* KneeLocator(range(N), y, curve='convex', direction='increasing'), S = 1,
\* on the ascending sequence y.  With R = y[N] - y[1] the difference curve
\* y_difference, multiplied by (N - 1) * R > 0, is the integer curve
\*   Yd(i) = (y[N] - y[N - i]) * (N - 1) - i * R      for i = 0 .. N - 1
\* (y is normalised, turned into max - y and flipped, then x_normalized is
\* subtracted); it is kept as the sequence Yd with Yd[i + 1] = Yd(i).  The
\* threshold of a local maximum i is Yd(i) - R.
KneeDiff(y) ==
    LET N == Len(y)
    IN  Tabulate(LAMBDA k : (y[N] - y[N - (k - 1)]) * (N - 1) - (k - 1) * (y[N] - y[1]), N)

\* argrelextrema(y_difference, np.greater_equal / np.less_equal), order 1,
\* mode 'clip': the neighbour of an end point is the end point itself
KneeIsMax(Yd, i) ==
    LET l == IF i = 0 THEN 0 ELSE i - 1
        r == IF i = Len(Yd) - 1 THEN i ELSE i + 1
    IN  Yd[i + 1] >= Yd[l + 1] /\ Yd[i + 1] >= Yd[r + 1]

KneeIsMin(Yd, i) ==
    LET l == IF i = 0 THEN 0 ELSE i - 1
        r == IF i = Len(Yd) - 1 THEN i ELSE i + 1
    IN  Yd[i + 1] <= Yd[l + 1] /\ Yd[i + 1] <= Yd[r + 1]

\* find_knee: the walk over the difference curve from the first local
\* maximum, stopping at x_normalized = 1.0 (i = N - 1); the first knee found
\* is returned (online = False).  The knee of a convex increasing curve is
\* x[-(threshold_index + 1)] = N - 1 - threshold_index.
RECURSIVE KneeWalk(_, _, _, _, _)
KneeWalk(Yd, R, i, threshold, threshold_index) ==
    LET N   == Len(Yd)
        th1 == IF KneeIsMax(Yd, i) THEN Yd[i + 1] - R ELSE threshold
        ti1 == IF KneeIsMax(Yd, i) THEN i ELSE threshold_index
        th2 == IF KneeIsMin(Yd, i) THEN 0 ELSE th1
    IN  IF i >= N - 1 THEN NoElbow
        ELSE IF Yd[i + 2] < th2 THEN N - 1 - ti1
        ELSE KneeWalk(Yd, R, i + 1, th2, ti1)

\* kneedle.elbow: NoElbow stands for None.  A curve of one point or a flat
\* curve normalises to NaN (0 / 0): no comparison holds, there is no local
\* maximum and find_knee returns None.
KneeElbow(y) ==
    LET N == Len(y)
        first(Yd) == CHOOSE i \in 0 .. N - 1 :
                         KneeIsMax(Yd, i) /\ \A j \in 0 .. i - 1 : ~KneeIsMax(Yd, j)
    IN  IF N < 2 \/ y[N] = y[1] THEN NoElbow
        ELSE Once(LAMBDA Yd : KneeWalk(Yd, y[N] - y[1], first(Yd), 0, first(Yd)),
                  KneeDiff(y))

\* ----------------------------------------------------------- sklearn DBSCAN
\* dist(i, j) <= eps, for distances d / sqrt(V) and eps given by its square
Within(d, V, eps) == d * d * eps.den <= eps.num * V

\* radius_neighbors: the rows within eps of row i, row i included
Neighborhoods(z, V, eps) ==
    Tabulate(LAMBDA i : {j \in DOMAIN z : Within(Dist(z, i, j), V, eps)}, Len(z))

\* the core samples density-connected to the core samples of S
RECURSIVE CoreClosure(_, _, _)
CoreClosure(nb, core, S) ==
    LET T == S \cup {j \in core : \E k \in S : j \in nb[k]}
    IN  IF T = S THEN S ELSE CoreClosure(nb, core, T)

\* dbscan_inner: the samples in index order; an unlabeled core sample starts
\* the next cluster, which takes the core samples connected to it and the
\* still unlabeled samples in their neighborhoods
RECURSIVE DbscanInner(_, _, _, _, _)
DbscanInner(nb, core, i, labels, label_num) ==
    IF i > Len(nb) THEN labels
    ELSE IF labels[i] # Noise \/ i \notin core
         THEN DbscanInner(nb, core, i + 1, labels, label_num)
         ELSE LET cores   == CoreClosure(nb, core, {i})
                  members == cores \cup {v \in DOMAIN nb :
                                 labels[v] = Noise /\ \E k \in cores : v \in nb[k]}
              IN  Once(LAMBDA labels1 : DbscanInner(nb, core, i + 1, labels1, label_num + 1),
                       Once(LAMBDA ms : Tabulate(LAMBDA v : IF v \in ms THEN label_num
                                                            ELSE labels[v], Len(nb)),
                            members))

\* DBSCAN(eps, min_samples).fit_predict: one label per row, -1 for noise
FitPredict(z, V, eps, m) ==
    Once(LAMBDA nb : DbscanInner(nb, {i \in DOMAIN z : Cardinality(nb[i]) >= m}, 1,
                                 Tabulate(LAMBDA v : Noise, Len(z)), 0),
         Neighborhoods(z, V, eps))

\* --------------------------------------------------- sklearn silhouette_score
\* silhouette_samples: a = mean distance to the other samples of the own
\* label, b = least mean distance to the samples of another label,
\* s = (b - a) / max(a, b); 0 for a label of one sample and for 0 / 0
\* (nan_to_num).  The noise label is a label like any other.  The value
\* kept is s + 1, a ratio in 0 .. 2.
SumDist(z, labels, i, L) ==
    SumSeq(Tabulate(LAMBDA j : IF labels[j] = L THEN Dist(z, i, j) ELSE 0, Len(z)), Len(z))

LabelCount(labels, L) == Cardinality({j \in DOMAIN labels : labels[j] = L})

SilhouetteSample(z, labels, i) ==
    LET others  == Range(labels) \ {labels[i]}
        mean    == [L \in others |-> <<SumDist(z, labels, i, L), LabelCount(labels, L)>>]
        best    == CHOOSE L \in others : \A M \in others : ~RLess(mean[M], mean[L])
        sa      == SumDist(z, labels, i, labels[i])
        na      == LabelCount(labels, labels[i]) - 1
        sb      == mean[best][1]
        nb      == mean[best][2]
        hi      == IF sa * nb > sb * na THEN sa * nb ELSE sb * na
    IN  IF na = 0 \/ hi = 0 THEN <<1, 1>>
        ELSE RNorm(sb * na - sa * nb + hi, hi)

\* silhouette_score is the mean of s over the samples.  The scores compared
\* are those of labelings of one matrix, so the sum of s + 1 over the
\* samples is kept in its place: it orders the labelings as the mean does.
SilhouetteScore(z, labels) ==
    BigRatioSum(Tabulate(LAMBDA i : SilhouetteSample(z, labels, i), Len(z)), Len(z))

\* ------------------------------------------- utils.find_optimal_parameters
\* None for best_eps, float('-inf') for best_score, None / a pair / the
\* message of the exception for what the call ends with
NoneEps == [num |-> 0, den |-> 0]
NegInf == <<<<>>, <<>>>>
NoReturn == [kind |-> "none", eps |-> NoneEps, min_samples |-> NoneMinSamples, msg |-> ""]
Returned(eps, ms) == [kind |-> "pair", eps |-> eps, min_samples |-> ms, msg |-> ""]
Raised(msg) == [kind |-> "error", eps |-> NoneEps, min_samples |-> NoneMinSamples, msg |-> msg]

VARIABLES X_scaled, min_samples_range, min_samples, best_eps,
          best_min_samples, best_score, fpc, ret,
          endpoint, db, pc, df, Xs, params, labels, exc, result, response,
          attempts, figs, plot_image, running

apiVars == <<endpoint, db, pc, df, Xs, params, labels, exc, result, response,
             attempts, figs, plot_image, running>>

searchVars == <<X_scaled, min_samples_range, min_samples, best_eps,
                best_min_samples, best_score, fpc, ret>>

vars == <<searchVars, apiVars>>

\* kneighbors asked for more neighbours than the matrix has rows
NeighborsMsg == "Expected n_neighbors <= n_samples_fit"

Outcome(kind, eps, score, msg) ==
    [kind |-> kind, eps |-> eps, score |-> score, msg |-> msg]

\* eps = distances[kneedle.elbow], as the square of d / sqrt(V)
ElbowEps(y, elbow, V) == [num |-> y[elbow + 1] * y[elbow + 1], den |-> V]

\* DBSCAN.fit rejects eps <= 0 (eps must be positive)
DbscanAccepts(eps) == eps.num > 0

\* lines 68-77: the labeling of the candidate and its score
CandidateOfEps(M, m, eps) ==
    IF ~DbscanAccepts(eps)
    THEN {Outcome("raise", eps, NegInf, "eps must be positive")}
    ELSE Once(LAMBDA lab : IF Cardinality(Range(lab)) <= 1
                           THEN {Outcome("invalid", eps, NegInf, "")}
                           ELSE {Outcome("scored", eps, SilhouetteScore(M.z, lab), "")},
              FitPredict(M.z, M.V, eps, m))

\* lines 57-62: the elbow of the sorted m-th neighbour distances y
CandidateOfCurve(M, m, y) ==
    Once(LAMBDA elbow : IF elbow = NoElbow
                        THEN {Outcome("no_elbow", NoneEps, NegInf, "")}
                        ELSE CandidateOfEps(M, m, ElbowEps(y, elbow, M.V)),
         KneeElbow(y))

\* One pass of the loop body (lines 50-77) for min_samples = m: what it ends
\* with.  A matrix of one row with m = 1 reaches scipy's interp1d with a
\* single point, which either raises or yields the NaN curve.
EvalCandidate(M, m) ==
    IF M.nan THEN {Outcome("raise", NoneEps, NegInf, "Input contains NaN")}
    ELSE IF m < 1 THEN {Outcome("raise", NoneEps, NegInf, "Expected n_neighbors > 0")}
    ELSE IF m > Len(M.z)
         THEN {Outcome("raise", NoneEps, NegInf, NeighborsMsg)}
    ELSE IF Len(M.z) = 1
         THEN {Outcome("no_elbow", NoneEps, NegInf, ""),
               Outcome("raise", NoneEps, NegInf, "x and y arrays must have at least 2 entries")}
    ELSE Once(LAMBDA y : CandidateOfCurve(M, m, y), KDistances(M.z, m))

\* score > best_score (line 79), best_score starting at float('-inf')
ScoreExceeds(score, best) == IF best = NegInf THEN TRUE ELSE BigRatioLess(best, score)

\* lines 84-91: the defaults when no candidate was recorded
\* the return of line 91 without the defaults of lines 85-88
ReturnValueNoDefault(eps, ms) == Returned(eps, ms)

ReturnValue(eps, ms) ==
    IF eps = NoneEps THEN Returned(DEFAULT_EPS, DEFAULT_MIN_SAMPLES) ELSE Returned(eps, ms)

InLoop == fpc = "loop" /\ min_samples <= min_samples_range[2]

\* line 53-54 (or 57, 68) raises: the except clause logs and re-raises
CandidateRaises ==
    /\ InLoop
    /\ \E o \in EvalCandidate(X_scaled, min_samples) :
          /\ o.kind = "raise"
          /\ fpc' = "raised"
          /\ ret' = Raised(o.msg)
    /\ UNCHANGED <<X_scaled, min_samples_range, min_samples, best_eps,
                   best_min_samples, best_score, apiVars>>

\* lines 58-60 with break in the place of continue
SkipNoElbowBreaks ==
    /\ InLoop
    /\ \E o \in EvalCandidate(X_scaled, min_samples) : o.kind = "no_elbow"
    /\ min_samples' = min_samples_range[2] + 1
    /\ UNCHANGED <<X_scaled, min_samples_range, best_eps, best_min_samples,
                   best_score, fpc, ret, apiVars>>

\* lines 58-60: no elbow, continue
SkipNoElbow ==
    /\ InLoop
    /\ \E o \in EvalCandidate(X_scaled, min_samples) : o.kind = "no_elbow"
    /\ min_samples' = min_samples + 1
    /\ UNCHANGED <<X_scaled, min_samples_range, best_eps, best_min_samples,
                   best_score, fpc, ret, apiVars>>

\* lines 72-74: at most one distinct label, continue
SkipInvalid ==
    /\ InLoop
    /\ \E o \in EvalCandidate(X_scaled, min_samples) : o.kind = "invalid"
    /\ min_samples' = min_samples + 1
    /\ UNCHANGED <<X_scaled, min_samples_range, best_eps, best_min_samples,
                   best_score, fpc, ret, apiVars>>

\* lines 76-82 with score > best_score
RecordBest ==
    /\ InLoop
    /\ \E o \in EvalCandidate(X_scaled, min_samples) :
          /\ o.kind = "scored"
          /\ ScoreExceeds(o.score, best_score)
          /\ best_score' = o.score
          /\ best_eps' = o.eps
          /\ best_min_samples' = min_samples
    /\ min_samples' = min_samples + 1
    /\ UNCHANGED <<X_scaled, min_samples_range, fpc, ret, apiVars>>

\* lines 76-79 with score <= best_score
KeepBest ==
    /\ InLoop
    /\ \E o \in EvalCandidate(X_scaled, min_samples) :
          /\ o.kind = "scored"
          /\ ~ScoreExceeds(o.score, best_score)
    /\ min_samples' = min_samples + 1
    /\ UNCHANGED <<X_scaled, min_samples_range, best_eps, best_min_samples,
                   best_score, fpc, ret, apiVars>>

\* lines 84-91 after the loop
Return ==
    /\ fpc = "loop"
    /\ min_samples > min_samples_range[2]
    /\ fpc' = "returned"
    /\ ret' = ReturnValue(best_eps, best_min_samples)
    /\ UNCHANGED <<X_scaled, min_samples_range, min_samples, best_eps,
                   best_min_samples, best_score, apiVars>>

\* find_optimal_parameters as its callers see it: the loop of lines 49-82
\* from min_samples = m on, then lines 84-91.  (With lo = 2 the undetermined
\* pass, one row with m = 1, is never reached.)
RECURSIVE SearchLoop(_, _, _, _, _, _)
SearchLoop(M, m, hi, beps, bms, bscore) ==
    IF m > hi THEN ReturnValue(beps, bms)
    ELSE Once(LAMBDA o : IF o.kind = "raise" THEN Raised(o.msg)
                         ELSE IF o.kind = "scored" /\ ScoreExceeds(o.score, bscore)
                              THEN SearchLoop(M, m + 1, hi, o.eps, m, o.score)
                              ELSE SearchLoop(M, m + 1, hi, beps, bms, bscore),
              CHOOSE c \in EvalCandidate(M, m) : TRUE)

\* line 38: min_samples_range=(2, 10)
find_optimal_parameters(M) ==
    SearchLoop(M, DefaultLo, DefaultHi, NoneEps, NoneMinSamples, NegInf)

\* The matrices searched: up to MaxRows rows with values 0 .. MaxCoord in
\* units of 1/10, the unit in which DEFAULT_EPS is 3 (V is the square of
\* the unit's inverse), in ascending or in descending order.
Unit2 == DEFAULT_EPS.den

RECURSIVE Ascending(_, _)
Ascending(n, maxCoord) ==
    IF n = 0 THEN {<<>>}
    ELSE UNION {{Append(s, v) : v \in (IF s = <<>> THEN 0 ELSE s[Len(s)]) .. maxCoord} :
                   s \in Ascending(n - 1, maxCoord)}

Reverse(s) == Tabulate(LAMBDA k : s[Len(s) + 1 - k], Len(s))

Rows(maxLen, maxCoord) ==
    UNION {Ascending(n, maxCoord) \cup {Reverse(s) : s \in Ascending(n, maxCoord)} :
              n \in 1 .. maxLen}

\* ------------------------------------------------ utils.standardize_features
\* A row of an entity table: its key and its feature, which may be missing
\* (NULL, or a value pd.to_numeric coerces to NaN).
Row(id, val, nan) == [id |-> id, val |-> val, nan |-> nan]

NoMatrix == [z |-> <<>>, V |-> 1, nan |-> FALSE]

ScalerEmptyMsg == "Found array with 0 sample(s) while a minimum of 1 is required by StandardScaler"

\* StandardScaler().fit_transform on a non-empty column x: (x - mean) / std
\* with the population std.  With n rows, S the sum and Q the sum of the
\* squares, this is (n * x - S) / sqrt(n * Q - S * S).  A constant column has
\* std 0, which the scaler replaces by 1: the column becomes 0.  A missing
\* value is left out of the fit and stays missing.
standardize_features(d) ==
    LET n == Len(d)
        x == Tabulate(LAMBDA k : d[k].val, n)
        S == SumSeq(x, n)
        Q == SumSeq(Tabulate(LAMBDA k : x[k] * x[k], n), n)
        W == n * Q - S * S
    IN  IF \E k \in DOMAIN d : d[k].nan
        THEN [z |-> Tabulate(LAMBDA k : 0, n), V |-> 1, nan |-> TRUE]
        ELSE IF W = 0 THEN [z |-> Tabulate(LAMBDA k : 0, n), V |-> 1, nan |-> FALSE]
        ELSE [z |-> Tabulate(LAMBDA k : n * x[k] - S, n), V |-> W, nan |-> FALSE]

\* ----------------------------------------------------- utils.plot_clusters
\* pyplot's process-wide state: the open figures in the order of their
\* activation, the last one current.  A figure records whose points were
\* drawn on it and whose scatter is its current image (0: none).
ColorbarMsg == "No mappable was found to use for colorbar creation"

RECURSIVE MaxNum(_)
MaxNum(fs) ==
    IF fs = <<>> THEN 0
    ELSE LET m == MaxNum(Tail(fs)) IN IF Head(fs).num > m THEN Head(fs).num ELSE m

\* plt.figure(): a new figure, made current
PltFigure(fs) == Append(fs, [num |-> MaxNum(fs) + 1, drawn |-> {}, mappable |-> 0])

\* plt.gcf(): the current figure, a new one when none is open
PltGcf(fs) == IF fs = <<>> THEN PltFigure(fs) ELSE fs

\* plt.scatter / xlabel / ylabel / title / grid of request r on the current figure
PltScatter(fs, r) ==
    LET g == PltGcf(fs)
    IN  [g EXCEPT ![Len(g)] = [@ EXCEPT !.drawn = @ \cup {r}, !.mappable = r]]

\* plt.close(): the current figure is closed
PltClose(fs) == IF fs = <<>> THEN fs ELSE SubSeq(fs, 1, Len(fs) - 1)

\* ------------------------------------------------------ analysis pipelines
Req == {1, 2}
Endpoints == {"customers", "products", "suppliers", "countries"}
Steps == {"fetch", "standardize", "search", "cluster", "plot", "assemble"}

TotalKey(ep) ==
    CASE ep = "customers" -> "total_customers"
      [] ep = "products"  -> "total_products"
      [] ep = "suppliers" -> "total_suppliers"
      [] OTHER            -> "total_countries"

NoProductMsg == "No product data found in the database"
NoValidMsg == "No valid numeric data found after cleaning"
DataSourceMsg == "connection to server failed"

NoResult ==
    [total_key |-> "", total |-> 0, number_of_clusters |-> 0, outliers_count |-> 0,
     parameters |-> [eps |-> NoneEps, min_samples |-> NoneMinSamples],
     outliers |-> <<>>, cluster_statistics |-> <<>>, clusters |-> <<>>]

NoResponse == [status |-> 0, detail |-> "", body |-> NoResult]

\* the distinct values of a column, ascending: sorted(df[col].unique())
RECURSIVE SortedSet(_)
SortedSet(S) ==
    IF S = {} THEN <<>>
    ELSE LET m == CHOOSE v \in S : \A w \in S : v <= w
         IN  <<m>> \o SortedSet(S \ {m})

\* df[df['cluster'] == -1], by the keys of the rows
OutliersOfClusterZero(d, lab) ==
    LET keep(k) == lab[k] = 0
        idx == SortedSet({k \in DOMAIN d : keep(k)})
    IN  Tabulate(LAMBDA k : d[idx[k]].id, Len(idx))

Outliers(d, lab) ==
    LET keep(k) == lab[k] = Noise
        idx == SortedSet({k \in DOMAIN d : keep(k)})
    IN  Tabulate(LAMBDA k : d[idx[k]].id, Len(idx))

\* product_analysis.py lines 84-93
ClusterStats(d, lab) ==
    LET cs == SortedSet(Range(lab))
        stat(c) ==
            LET n == LabelCount(lab, c)
                t == SumSeq(Tabulate(LAMBDA k : IF lab[k] = c THEN d[k].val ELSE 0, Len(d)), Len(d))
            IN  [cluster |-> c, product_count |-> n,
                 average_price |-> RNorm(t, n), total_quantity |-> t]
    IN  Tabulate(LAMBDA k : stat(cs[k]), Len(cs))

\* the dictionary a pipeline returns
AssembleResult(ep, d, lab, p) ==
    [total_key          |-> TotalKey(ep),
     total              |-> Len(d),
     number_of_clusters |-> Cardinality(Range(lab)) - 1,
     outliers_count     |-> Len(Outliers(d, lab)),
     parameters         |-> [eps |-> p.eps, min_samples |-> p.min_samples],
     outliers           |-> Outliers(d, lab),
     cluster_statistics |-> IF ep = "products" THEN ClusterStats(d, lab) ELSE <<>>,
     clusters           |-> Tabulate(LAMBDA k : [id |-> d[k].id, cluster |-> lab[k]], Len(d))]

\* --------------------------------------------------------------- HTTP layer
\* return analyze_...(): the result is the body of the response
HttpOk(res) == [status |-> 200, detail |-> "", body |-> res]

\* except Exception as e: raise HTTPException(status_code=500, detail=str(e))
\* a handler that answers with a fixed detail in the place of str(e)
HTTPExceptionGeneric(msg) ==
    [status |-> 500, detail |-> "Internal Server Error", body |-> NoResult]

HTTPException(msg) == [status |-> 500, detail |-> msg, body |-> NoResult]

\* The endpoints are coroutines (async def) that call the pipeline without
\* awaiting anything: the event loop runs a handler from its first line to
\* its response before it starts another one.
\* handlers declared with def run in the thread pool, at any time
CanRunAnytime(r) == TRUE

CanRun(r) == running = 0 \/ running = r

Set(f, r, v) == [f EXCEPT ![r] = v]
Count(r, step) == [attempts EXCEPT ![r][step] = @ + 1]

\* pd.read_sql(query, engine)
Fetch(r) ==
    /\ pc[r] = "pending"
    /\ CanRun(r)
    /\ running' = r
    /\ attempts' = Count(r, "fetch")
    /\ IF db[r].ok
       THEN /\ df' = Set(df, r, db[r].table)
            /\ pc' = Set(pc, r, "fetched")
            /\ exc' = exc
       ELSE /\ df' = df
            /\ pc' = Set(pc, r, "raised")
            /\ exc' = Set(exc, r, DataSourceMsg)
    /\ UNCHANGED <<searchVars, endpoint, db, Xs, params, labels, result, response,
                   figs, plot_image>>

\* product_analysis.py lines 36-48: the two empty checks around the cleaning
Clean(r) ==
    /\ pc[r] = "fetched"
    /\ endpoint[r] = "products"
    /\ CanRun(r)
    /\ LET kept == SelectSeq(df[r], LAMBDA row : ~row.nan)
       IN  IF df[r] = <<>>
           THEN /\ df' = df
                /\ pc' = Set(pc, r, "raised")
                /\ exc' = Set(exc, r, NoProductMsg)
           ELSE /\ df' = Set(df, r, kept)
                /\ IF kept = <<>>
                   THEN pc' = Set(pc, r, "raised") /\ exc' = Set(exc, r, NoValidMsg)
                   ELSE pc' = Set(pc, r, "cleaned") /\ exc' = exc
    /\ UNCHANGED <<searchVars, endpoint, db, Xs, params, labels, result, response,
                   attempts, figs, plot_image, running>>

\* X = df[features]; X_scaled = standardize_features(X)
Standardize(r) ==
    /\ pc[r] = IF endpoint[r] = "products" THEN "cleaned" ELSE "fetched"
    /\ CanRun(r)
    /\ attempts' = Count(r, "standardize")
    /\ IF df[r] = <<>>
       THEN /\ Xs' = Xs
            /\ pc' = Set(pc, r, "raised")
            /\ exc' = Set(exc, r, ScalerEmptyMsg)
       ELSE /\ Xs' = Set(Xs, r, standardize_features(df[r]))
            /\ pc' = Set(pc, r, "standardized")
            /\ exc' = exc
    /\ UNCHANGED <<searchVars, endpoint, db, df, params, labels, result, response,
                   figs, plot_image, running>>

\* eps, min_samples = find_optimal_parameters(X_scaled)
Search(r) ==
    /\ pc[r] = "standardized"
    /\ CanRun(r)
    /\ attempts' = Count(r, "search")
    /\ \E p \in {find_optimal_parameters(Xs[r])} :
           IF p.kind = "error"
           THEN /\ params' = params
                /\ pc' = Set(pc, r, "raised")
                /\ exc' = Set(exc, r, p.msg)
           ELSE /\ params' = Set(params, r, p)
                /\ pc' = Set(pc, r, "searched")
                /\ exc' = exc
    /\ UNCHANGED <<searchVars, endpoint, db, df, Xs, labels, result, response,
                   figs, plot_image, running>>

\* df["cluster"] = DBSCAN(eps=eps, min_samples=min_samples).fit_predict(X_scaled)
Cluster(r) ==
    /\ pc[r] = "searched"
    /\ CanRun(r)
    /\ attempts' = Count(r, "cluster")
    /\ labels' = Set(labels, r, FitPredict(Xs[r].z, Xs[r].V, params[r].eps, params[r].min_samples))
    /\ pc' = Set(pc, r, "clustered")
    /\ UNCHANGED <<searchVars, endpoint, db, df, Xs, params, exc, result, response,
                   figs, plot_image, running>>

\* utils.py line 100
PlotFigure(r) ==
    /\ pc[r] = "clustered"
    /\ CanRun(r)
    /\ attempts' = Count(r, "plot")
    /\ figs' = PltFigure(figs)
    /\ pc' = Set(pc, r, "figure")
    /\ UNCHANGED <<searchVars, endpoint, db, df, Xs, params, labels, exc, result,
                   response, plot_image, running>>

\* utils.py lines 101-105
PlotScatter(r) ==
    /\ pc[r] = "figure"
    /\ CanRun(r)
    /\ figs' = PltScatter(figs, r)
    /\ pc' = Set(pc, r, "scattered")
    /\ UNCHANGED <<searchVars, endpoint, db, df, Xs, params, labels, exc, result,
                   response, attempts, plot_image, running>>

\* utils.py line 106: plt.colorbar() takes the current image of the current
\* figure and raises when there is none
PlotColorbar(r) ==
    /\ pc[r] = "scattered"
    /\ CanRun(r)
    /\ figs' = PltGcf(figs)
    /\ IF PltGcf(figs)[Len(PltGcf(figs))].mappable = 0
       THEN pc' = Set(pc, r, "raised") /\ exc' = Set(exc, r, ColorbarMsg)
       ELSE pc' = Set(pc, r, "colorbar") /\ exc' = exc
    /\ UNCHANGED <<searchVars, endpoint, db, df, Xs, params, labels, result,
                   response, attempts, plot_image, running>>

\* utils.py lines 109-116: the current figure is saved, encoded and closed
PlotSave(r) ==
    /\ pc[r] = "colorbar"
    /\ CanRun(r)
    /\ plot_image' = Set(plot_image, r, PltGcf(figs)[Len(PltGcf(figs))].drawn)
    /\ figs' = PltClose(PltGcf(figs))
    /\ pc' = Set(pc, r, "plotted")
    /\ UNCHANGED <<searchVars, endpoint, db, df, Xs, params, labels, exc, result,
                   response, attempts, running>>

\* the outliers and the returned dictionary
Assemble(r) ==
    /\ pc[r] = "plotted"
    /\ CanRun(r)
    /\ attempts' = Count(r, "assemble")
    /\ result' = Set(result, r, AssembleResult(endpoint[r], df[r], labels[r], params[r]))
    /\ pc' = Set(pc, r, "assembled")
    /\ UNCHANGED <<searchVars, endpoint, db, df, Xs, params, labels, exc, response,
                   figs, plot_image, running>>

\* app.py: return analyze_...()
RespondOk(r) ==
    /\ pc[r] = "assembled"
    /\ CanRun(r)
    /\ response' = Set(response, r, HttpOk(result[r]))
    /\ pc' = Set(pc, r, "done")
    /\ running' = 0
    /\ UNCHANGED <<searchVars, endpoint, db, df, Xs, params, labels, exc, result,
                   attempts, figs, plot_image>>

\* app.py: except Exception as e
RespondError(r) ==
    /\ pc[r] = "raised"
    /\ CanRun(r)
    /\ response' = Set(response, r, HTTPException(exc[r]))
    /\ pc' = Set(pc, r, "done")
    /\ running' = 0
    /\ UNCHANGED <<searchVars, endpoint, db, df, Xs, params, labels, exc, result,
                   attempts, figs, plot_image>>

\* ------------------------------------------------------------ the tables
\* An entity table: n rows with the features of s, keys 1 .. n, and, with
\* withNaN, one more row whose feature is missing.
TableOf(s, withNaN) ==
    Tabulate(LAMBDA k : Row(k, s[k], FALSE), Len(s))
        \o (IF withNaN THEN <<Row(Len(s) + 1, 0, TRUE)>> ELSE <<>>)

Tables(maxLen, maxVal) ==
    UNION {{TableOf(s, b) : s \in Ascending(n, maxVal), b \in BOOLEAN} : n \in 0 .. maxLen}

DbOk(t) == [ok |-> TRUE, table |-> t]
DbDown == [ok |-> FALSE, table |-> <<>>]

\* no request: the state of the HTTP layer while a search is looked at alone
ApiRest(active) ==
    /\ pc = [r \in Req |-> IF r \in active THEN "pending" ELSE "absent"]
    /\ df = [r \in Req |-> <<>>]
    /\ Xs = [r \in Req |-> NoMatrix]
    /\ params = [r \in Req |-> NoReturn]
    /\ labels = [r \in Req |-> <<>>]
    /\ exc = [r \in Req |-> ""]
    /\ result = [r \in Req |-> NoResult]
    /\ response = [r \in Req |-> NoResponse]
    /\ attempts = [r \in Req |-> [st \in Steps |-> 0]]
    /\ figs = <<>>
    /\ plot_image = [r \in Req |-> {}]
    /\ running = 0

SearchRest ==
    /\ X_scaled = NoMatrix
    /\ min_samples_range = <<DefaultLo, DefaultHi>>
    /\ min_samples = DefaultLo
    /\ best_eps = NoneEps
    /\ best_min_samples = NoneMinSamples
    /\ best_score = NegInf
    /\ fpc = "idle"
    /\ ret = NoReturn

\* --------------------------------------------------------- specifications
\* find_optimal_parameters alone, on every matrix and range of the bounds
\* and on the default range
SearchInit ==
    /\ \E z \in Rows(MaxRows, MaxCoord) : X_scaled = [z |-> z, V |-> Unit2, nan |-> FALSE]
    /\ \E rg \in ((0 .. DefaultLo) \X (1 .. MaxHi)) \cup {<<DefaultLo, DefaultHi>>} :
          /\ min_samples_range = rg
          /\ min_samples = rg[1]
    /\ best_eps = NoneEps
    /\ best_min_samples = NoneMinSamples
    /\ best_score = NegInf
    /\ fpc = "loop"
    /\ ret = NoReturn
    /\ endpoint = [r \in Req |-> "customers"]
    /\ db = [r \in Req |-> DbDown]
    /\ ApiRest({})

SearchNext ==
    \/ CandidateRaises
    \/ SkipNoElbow
    \/ SkipInvalid
    \/ RecordBest
    \/ KeepBest
    \/ Return

SearchSpec == SearchInit /\ [][SearchNext]_vars

ApiNext ==
    \E r \in Req :
        \/ Fetch(r)
        \/ Clean(r)
        \/ Standardize(r)
        \/ Search(r)
        \/ Cluster(r)
        \/ PlotFigure(r)
        \/ PlotScatter(r)
        \/ PlotColorbar(r)
        \/ PlotSave(r)
        \/ Assemble(r)
        \/ RespondOk(r)
        \/ RespondError(r)

\* one request to one endpoint, on every table of the bounds
PipelineInit ==
    /\ SearchRest
    /\ \E ep \in Endpoints : endpoint = [r \in Req |-> ep]
    /\ \E d \in {DbDown} \cup {DbOk(t) : t \in Tables(MaxTableRows, MaxVal)} :
          db = [r \in Req |-> d]
    /\ ApiRest({1})

PipelineSpec == PipelineInit /\ [][ApiNext]_vars

\* two requests in flight at once
ConcTables ==
    {TableOf(<<>>, FALSE), TableOf(<<0, 1, 2>>, FALSE),
     TableOf(<<0, 0, 0, 0, 0, 2, 2, 2, 2, 2>>, FALSE),
     TableOf(<<0, 0, 0, 0, 0, 0, 1, 1, 1, 2, 2>>, TRUE)}

ConcInit ==
    /\ SearchRest
    /\ endpoint \in [Req -> Endpoints]
    /\ db \in [Req -> {DbDown} \cup {DbOk(t) : t \in ConcTables}]
    /\ ApiRest(Req)

ConcSpec == ConcInit /\ [][ApiNext]_vars

\* ------------------------------------------------------------------ claims
\* the call of find_optimal_parameters has ended, by a return or a raise
Ended == fpc \in {"returned", "raised"}

Lo == min_samples_range[1]
Hi == min_samples_range[2]

\* the candidates that survive: an elbow and at least two distinct labels
Survivors ==
    {m \in Lo .. Hi : \E o \in EvalCandidate(X_scaled, m) : o.kind = "scored"}

Scored(m) == CHOOSE o \in EvalCandidate(X_scaled, m) : o.kind = "scored"

\* the survivor with the highest score, the smallest m among equals
BestSurvivor ==
    CHOOSE m \in Survivors :
        \A k \in Survivors :
            /\ k < m => BigRatioLess(Scored(k).score, Scored(m).score)
            /\ k > m => ~BigRatioLess(Scored(m).score, Scored(k).score)

\* every pass over m ends in a skip
AllSkip(m) ==
    \A o \in EvalCandidate(X_scaled, m) : o.kind \in {"no_elbow", "invalid"}

\* C2: when some candidate of the range survives, the call returns the
\* surviving candidate with the highest silhouette score, the smallest m on
\* a tie.
C2_ReturnsBestSurvivor ==
    (Ended /\ Lo >= DefaultLo /\ Survivors # {}) =>
        /\ fpc = "returned"
        /\ ret = Returned(Scored(BestSurvivor).eps, BestSurvivor)

\* The selection itself: a call that returns, returns the best survivor.
ReturnedIsBestSurvivor ==
    (fpc = "returned" /\ Survivors # {}) =>
        ret = Returned(Scored(BestSurvivor).eps, BestSurvivor)

\* a tie between two survivors is within the bounds
TieWitness ==
    /\ fpc = "returned"
    /\ \E k \in Survivors : k # BestSurvivor
          /\ ~BigRatioLess(Scored(k).score, Scored(BestSurvivor).score)

TwoIdenticalRowsDefaultRange ==
    /\ Len(X_scaled.z) = 2
    /\ X_scaled.z[1] = X_scaled.z[2]
    /\ min_samples_range = <<DefaultLo, DefaultHi>>

\* C3: when every candidate of the range is degenerate, and for two
\* identical rows with the default range, the call returns (0.3, 3).
C3_FallbackToDefaults ==
    (Ended /\ ((\A m \in Lo .. Hi : AllSkip(m)) \/ TwoIdenticalRowsDefaultRange)) =>
        /\ fpc = "returned"
        /\ ret = Returned(DEFAULT_EPS, DEFAULT_MIN_SAMPLES)

\* The fallback when no pass raises.
AllSkipReturnsDefaults ==
    (Ended /\ \A m \in Lo .. Hi : AllSkip(m)) =>
        /\ fpc = "returned"
        /\ ret = Returned(DEFAULT_EPS, DEFAULT_MIN_SAMPLES)

\* C4: a matrix with fewer rows than a candidate m never makes the search
\* abort on the nearest-neighbour query.
C4_FewRowsNeverAbort ==
    (Ended /\ Len(X_scaled.z) < Hi) =>
        ~(fpc = "raised" /\ ret.msg = NeighborsMsg)

\* C7: a returned pair has eps > 0 and an integer min_samples >= 2.
C7_ReturnedPairIsValid ==
    fpc = "returned" =>
        /\ ret.kind = "pair"
        /\ ret.eps.num > 0
        /\ ret.eps.den > 0
        /\ ret.min_samples \in Nat
        /\ ret.min_samples >= 2

\* a pair taken from an elbow is returned for a matrix with duplicate rows
C7_Witness ==
    /\ fpc = "returned"
    /\ ret.min_samples = best_min_samples
    /\ \E i, j \in DOMAIN X_scaled.z : i # j /\ X_scaled.z[i] = X_scaled.z[j]

\* C9: a pass that ends in a skip (no elbow, or at most one distinct label)
\* leaves best_eps, best_min_samples and best_score as they are and goes on
\* to the next candidate; a call that returns has passed every candidate.
C9_SkipKeepsBestAndGoesOn ==
    [][(InLoop /\ AllSkip(min_samples)) =>
          /\ best_eps' = best_eps
          /\ best_min_samples' = best_min_samples
          /\ best_score' = best_score
          /\ fpc' = "loop"
          /\ min_samples' = min_samples + 1]_vars
    /\ [](fpc = "returned" => min_samples > Hi)

\* a recorded best has outlived a skipped candidate, and the loop goes on
C9_Witness ==
    /\ fpc = "loop"
    /\ best_eps # NoneEps
    /\ min_samples - 1 > best_min_samples
    /\ AllSkip(min_samples - 1)
    /\ min_samples <= Hi

\* the labels of a response, in the order of its clusters entries
BodyLabels(b) == Tabulate(LAMBDA k : b.clusters[k].cluster, Len(b.clusters))

Succeeded(r) == pc[r] = "done" /\ response[r].status = 200
Failed(r) == pc[r] = "done" /\ response[r].status = 500

\* C1: number_of_clusters is the number of distinct labels, less one when
\* the noise label is among them.
C1_ClusterCountFormula ==
    \A r \in Req :
        Succeeded(r) =>
            LET b == response[r].body
                distinct == Cardinality(Range(BodyLabels(b)))
            IN  b.number_of_clusters =
                    IF Noise \in Range(BodyLabels(b)) THEN distinct - 1 ELSE distinct

\* the rows that survive the numeric cleaning
Usable(t) == SelectSeq(t, LAMBDA row : ~row.nan)

NoDataMessages == {NoProductMsg, NoValidMsg}

\* C5: an empty table (or one whose rows are all dropped by the cleaning)
\* ends in the no-data error, before the standardization, the search or the
\* clustering is attempted.
C5_EmptyTableIsNoDataError ==
    \A r \in Req :
        (pc[r] = "done" /\ db[r].ok /\ Usable(db[r].table) = <<>>) =>
            /\ response[r].status = 500
            /\ response[r].detail \in NoDataMessages
            /\ attempts[r]["standardize"] = 0
            /\ attempts[r]["search"] = 0
            /\ attempts[r]["cluster"] = 0

\* C6: a failure at any step gives the 500 response whose detail is the
\* message of the exception, with no result in it and no step tried twice;
\* a response is that, or the complete result.
C6_FailureIs500WithMessage ==
    \A r \in Req :
        pc[r] = "done" =>
            /\ \A st \in Steps : attempts[r][st] <= 1
            /\ IF exc[r] # ""
               THEN response[r] = [status |-> 500, detail |-> exc[r], body |-> NoResult]
               ELSE /\ response[r] = [status |-> 200, detail |-> "", body |-> result[r]]
                    /\ result[r] # NoResult
                    /\ \A st \in Steps : attempts[r][st] = 1

\* the search of a request raised and the request ended in the 500 response
C6_Witness ==
    \E r \in Req :
        /\ Failed(r)
        /\ exc[r] = NeighborsMsg
        /\ attempts[r]["search"] = 1

\* C10: clusters has one entry per row of the analysed table, in its
\* order; outliers_count is the number of entries with cluster -1 and the
\* length of outliers; parameters is the pair of the final DBSCAN run.
C10_ResultAgreesWithLabeling ==
    \A r \in Req :
        Succeeded(r) =>
            LET b == response[r].body
                t == IF endpoint[r] = "products" THEN Usable(db[r].table) ELSE db[r].table
            IN  /\ Len(b.clusters) = b.total
                /\ b.total = Len(t)
                /\ \A k \in DOMAIN t : b.clusters[k].id = t[k].id
                /\ b.outliers_count =
                       Cardinality({k \in DOMAIN b.clusters : b.clusters[k].cluster = Noise})
                /\ b.outliers_count = Len(b.outliers)
                /\ b.parameters = [eps |-> params[r].eps, min_samples |-> params[r].min_samples]
                /\ BodyLabels(b) = FitPredict(Xs[r].z, Xs[r].V, b.parameters.eps,
                                              b.parameters.min_samples)

\* a result with outliers and with rows dropped by the cleaning
C10_Witness ==
    \E r \in Req :
        /\ Succeeded(r)
        /\ response[r].body.outliers_count > 0
        /\ response[r].body.total < Len(db[r].table)

\* What a request answers when it is served alone: the pipeline on its own
\* data, with a pyplot state of its own.
SoloResponse(ep, d) ==
    LET t == IF ep = "products" THEN Usable(d.table) ELSE d.table
    IN  IF ~d.ok THEN HTTPException(DataSourceMsg)
        ELSE IF ep = "products" /\ d.table = <<>> THEN HTTPException(NoProductMsg)
        ELSE IF ep = "products" /\ t = <<>> THEN HTTPException(NoValidMsg)
        ELSE IF t = <<>> THEN HTTPException(ScalerEmptyMsg)
        ELSE Once(LAMBDA M :
               Once(LAMBDA p :
                   IF p.kind = "error" THEN HTTPException(p.msg)
                   ELSE HttpOk(AssembleResult(ep, t,
                                   FitPredict(M.z, M.V, p.eps, p.min_samples), p)),
                   find_optimal_parameters(M)),
               standardize_features(t))

\* C8: under every interleaving of two requests, each response is the one
\* the request gets when served alone, and the plot of a request shows its
\* own points only.
C8_ResponseAsServedAlone ==
    \A r \in Req :
        pc[r] = "done" =>
            /\ response[r] = SoloResponse(endpoint[r], db[r])
            /\ response[r].status = 200 => plot_image[r] = {r}

\* both requests were in flight together and both got their result
C8_Witness ==
    /\ \A r \in Req : Succeeded(r) /\ plot_image[r] = {r}
    /\ figs = <<>>

====
